---- MODULE Spec2Model ----
(***************************************************************************)
(* psp-gfx: the frame lifecycle of crates/psp-gfx/src/lib.rs.              *)
(*                                                                         *)
(* One caller thread drives PspGfx::init, PspGfx::start_frame, the Frame   *)
(* operations and the close of a Frame (Frame::finish or Drop).  The GU    *)
(* driver is a recording backend: every sys::sce* call is appended to a    *)
(* log with its operands.  The two blocking driver calls (sceGuSync with   *)
(* Wait, sceDisplayWaitVblankStart) suspend the thread until the hardware  *)
(* signals, so the thread's position inside init and inside                *)
(* finish_non_consuming is part of the state.                              *)
(***************************************************************************)
EXTENDS Integers, Sequences, FiniteSets, TLC

\* ------------------------------------------------------------------ bounds
\* Frames started in one run.
MaxFrames == 3
\* Frame operations invoked on one Frame.
MaxOps == 2

\* --------------------------------------------------------- psp constants
BUF_WIDTH == 512
SCREEN_WIDTH == 480
SCREEN_HEIGHT == 272
\* address of the static command-list arena
BUFFER == 1048576
\* core::ptr::null()
NULL == 0
\* sys::ClearBuffer bits
COLOR_BUFFER_BIT == 1
DEPTH_BUFFER_BIT == 4

\* ---------------------------------------------------------------- helpers
RECURSIVE BitOr(_, _)
\* a | b on non-negative integers
BitOr(a, b) ==
    IF a = 0 THEN b
    ELSE IF b = 0 THEN a
    ELSE (IF (a % 2 = 1) \/ (b % 2 = 1) THEN 1 ELSE 0) + 2 * BitOr(a \div 2, b \div 2)

\* bytes per pixel of a TexturePixelFormat
PixelBytes(psm) == IF psm = "Psm8888" THEN 4 ELSE 2

\* size of one alloc_texture_pixels(width, height, psm) request
TextureSize(width, height, psm) == width * height * PixelBytes(psm)

\* The three region requests of init, in order: fbp0, fbp1, zbp.
Requests ==
    << TextureSize(BUF_WIDTH, SCREEN_HEIGHT, "Psm8888"),
       TextureSize(BUF_WIDTH, SCREEN_HEIGHT, "Psm8888"),
       TextureSize(BUF_WIDTH, SCREEN_HEIGHT, "Psm4444") >>

\* Offset (pointer from zero) the allocator hands out for request i.
RECURSIVE RegionBase(_)
RegionBase(i) == IF i = 1 THEN 0 ELSE RegionBase(i - 1) + Requests[i - 1]

\* (bug) the depth region is not requested before the hardware is set up
AllocationsSucceed_no_depth(alloc, total) ==
    /\ alloc = "free"
    /\ \A i \in 1..2 : RegionBase(i) + Requests[i] <= total

\* get_vram_allocator().unwrap() and the three alloc_texture_pixels calls:
\* TRUE when the allocator is free and every request fits in video memory.
AllocationsSucceed(alloc, total) ==
    /\ alloc = "free"
    /\ \A i \in 1..3 : RegionBase(i) + Requests[i] <= total

\* Video memory sizes the platform may offer: too small for any region, for
\* the second colour region, for the depth region (none of it, one byte
\* short), and the real 2 MiB.
VramSizes == {0, 557056, 1114112, 1392639, 2097152}

\* One recorded driver call: its name, its operands, the function of lib.rs
\* that issued it.
Call(name, args, by) == [call |-> name, args |-> args, by |-> by]

NoArgs == [none |-> TRUE]

NoFrame == [id |-> 0, armed |-> FALSE]

NoGfx == [fbp0 |-> -1, fbp1 |-> -1, zbp |-> -1]

VARIABLES
    pc,         \* position of the caller thread
    via,        \* who entered finish_non_consuming for the latest Frame: "finish",
                \* "drop", "unwind" ("none" while the Frame is open)
    allocator,  \* the video-memory allocator: "free", "in_use" (taken by someone
                \* else before init) or "ours" (taken by init)
    vramTotal,  \* size of video memory
    gfx,        \* the PspGfx value (NoGfx before init returns)
    frame,      \* the live Frame handle (NoFrame when none); armed: Drop will run
    nframes,    \* number of Frames start_frame has returned
    held,       \* TransientBuffers the caller can still name
    calls,      \* Frame operations invoked on the current Frame, in order
    log,        \* driver calls recorded since init (before the first frame)
                \* or since the current frame's start_frame
    lifecycle,  \* every command-list lifecycle call since boot
    drawBuf,    \* hardware: region registered as draw buffer
    dispBuf,    \* hardware: region registered as display buffer
    displayOn,  \* hardware: display engine enabled
    listOpen,   \* hardware: a command list is being recorded
    gpuBusy,    \* hardware: a finished list is still executing
    texFunc,    \* hardware: the texture function in effect
    shadeModel  \* hardware: the shading model in effect

vars == << pc, via, allocator, vramTotal, gfx, frame, nframes, held, calls,
           log, lifecycle, drawBuf, dispBuf, displayOn, listOpen, gpuBusy,
           texFunc, shadeModel >>

\* the pipeline state registers the Frame operations write
regs == << texFunc, shadeModel >>

\* the texture function before any sceGuTexFunc: the driver's default
NoTexFunc == [tfx |-> "default", tcc |-> "default"]

hw == << drawBuf, dispBuf, displayOn, listOpen, gpuBusy >>

\* A lifecycle record: the call, the frame it belongs to (0: init) and the
\* display-buffer pointer the backend holds after it.
Life(name, f, disp) == [call |-> name, frame |-> f, disp |-> disp]

Init ==
    /\ pc = "boot"
    /\ via = "none"
    /\ allocator \in {"free", "in_use"}
    /\ vramTotal \in VramSizes
    /\ gfx = NoGfx
    /\ frame = NoFrame
    /\ nframes = 0
    /\ held = {}
    /\ calls = << >>
    /\ log = << >>
    /\ lifecycle = << >>
    /\ drawBuf = -1
    /\ dispBuf = -1
    /\ displayOn = FALSE
    /\ listOpen = FALSE
    /\ gpuBusy = FALSE
    /\ texFunc = NoTexFunc
    /\ shadeModel = "default"

\* ------------------------------------------------------------ PspGfx::init
\* (bug) init does not close its setup list before the sync
InitCommands_unfinished(fbp0, fbp1, zbp) ==
    << Call("sceGuInit", NoArgs, "init"),
       Call("sceGumLoadIdentity", NoArgs, "init"),
       Call("sceGuStart", [ctx |-> "Direct", list |-> BUFFER], "init"),
       Call("sceGuDrawBuffer", [psm |-> "Psm8888", fbp |-> fbp0, width |-> BUF_WIDTH], "init"),
       Call("sceGuDispBuffer", [w |-> SCREEN_WIDTH, h |-> SCREEN_HEIGHT, fbp |-> fbp1,
                                width |-> BUF_WIDTH], "init"),
       Call("sceGuDepthBuffer", [zbp |-> zbp, width |-> BUF_WIDTH], "init"),
       Call("sceGuOffset", [x |-> 2048 - (SCREEN_WIDTH \div 2),
                            y |-> 2048 - (SCREEN_HEIGHT \div 2)], "init"),
       Call("sceGuViewport", [cx |-> 2048, cy |-> 2048, w |-> SCREEN_WIDTH,
                              h |-> SCREEN_HEIGHT], "init"),
       Call("sceGuDepthRange", [near |-> 65535, far |-> 0], "init"),
       Call("sceGuScissor", [x |-> 0, y |-> 0, w |-> SCREEN_WIDTH, h |-> SCREEN_HEIGHT], "init"),
       Call("sceGuEnable", [state |-> "ScissorTest"], "init"),
       Call("sceGuSync", [mode |-> "Finish", behavior |-> "Wait"], "init") >>
\* The driver calls of init up to and including the blocking sceGuSync.
InitCommands(fbp0, fbp1, zbp) ==
    << Call("sceGuInit", NoArgs, "init"),
       Call("sceGumLoadIdentity", NoArgs, "init"),
       Call("sceGuStart", [ctx |-> "Direct", list |-> BUFFER], "init"),
       Call("sceGuDrawBuffer", [psm |-> "Psm8888", fbp |-> fbp0, width |-> BUF_WIDTH], "init"),
       Call("sceGuDispBuffer", [w |-> SCREEN_WIDTH, h |-> SCREEN_HEIGHT, fbp |-> fbp1,
                                width |-> BUF_WIDTH], "init"),
       Call("sceGuDepthBuffer", [zbp |-> zbp, width |-> BUF_WIDTH], "init"),
       Call("sceGuOffset", [x |-> 2048 - (SCREEN_WIDTH \div 2),
                            y |-> 2048 - (SCREEN_HEIGHT \div 2)], "init"),
       Call("sceGuViewport", [cx |-> 2048, cy |-> 2048, w |-> SCREEN_WIDTH,
                              h |-> SCREEN_HEIGHT], "init"),
       Call("sceGuDepthRange", [near |-> 65535, far |-> 0], "init"),
       Call("sceGuScissor", [x |-> 0, y |-> 0, w |-> SCREEN_WIDTH, h |-> SCREEN_HEIGHT], "init"),
       Call("sceGuEnable", [state |-> "ScissorTest"], "init"),
       Call("sceGuFinish", NoArgs, "init"),
       Call("sceGuSync", [mode |-> "Finish", behavior |-> "Wait"], "init") >>

\* Whether a command list is open after the driver calls `cmds`: sceGuStart
\* opens one (lines 56-59, 84-87), sceGuFinish closes it (lines 73, 100).
RECURSIVE ListOpenAfter(_, _)
ListOpenAfter(open, cmds) ==
    IF cmds = << >> THEN open
    ELSE LET before == ListOpenAfter(open, SubSeq(cmds, 1, Len(cmds) - 1))
             last == cmds[Len(cmds)].call
         IN IF last = "sceGuStart" THEN TRUE
            ELSE IF last = "sceGuFinish" THEN FALSE
            ELSE before

\* init, lines 42-74: allocation, then the setup list up to the sync wait.
\* A failed unwrap or allocation panics before sceGuInit.
InitCall ==
    /\ pc = "boot"
    /\ IF AllocationsSucceed(allocator, vramTotal)
       THEN /\ pc' = "init_sync"
            /\ allocator' = "ours"
            /\ UNCHANGED gfx
            /\ log' = InitCommands(RegionBase(1), RegionBase(2), RegionBase(3))
            /\ lifecycle' = << Life("sceGuInit", 0, -1),
                               Life("sceGuStart", 0, -1),
                               Life("sceGuFinish", 0, RegionBase(2)),
                               Life("sceGuSync", 0, RegionBase(2)) >>
            /\ drawBuf' = RegionBase(1)
            /\ dispBuf' = RegionBase(2)
            /\ listOpen' = ListOpenAfter(listOpen,
                                InitCommands(RegionBase(1), RegionBase(2), RegionBase(3)))
            /\ gpuBusy' = TRUE
            /\ UNCHANGED displayOn
       ELSE /\ pc' = "panicked"
            /\ UNCHANGED << allocator, gfx, log, lifecycle, hw >>
    /\ UNCHANGED << via, vramTotal, frame, nframes, held, calls, regs >>

\* The hardware finishes executing the submitted list.
GpuFinish ==
    /\ gpuBusy
    /\ gpuBusy' = FALSE
    /\ UNCHANGED << pc, via, allocator, vramTotal, gfx, frame, nframes, held, calls,
                    log, lifecycle, drawBuf, dispBuf, displayOn, listOpen, regs >>

\* sceGuSync(GuSyncMode::Finish, GuSyncBehavior::Wait), lines 74 and 101,
\* returns when the hardware has finished the list.
SyncReturns == ~gpuBusy

\* init, lines 74-75: sceGuSync returns, the thread calls
\* sceDisplayWaitVblankStart and waits for the vertical blank.
InitSyncReturn ==
    /\ pc = "init_sync"
    /\ SyncReturns
    /\ pc' = "init_vblank"
    /\ log' = Append(log, Call("sceDisplayWaitVblankStart", NoArgs, "init"))
    /\ lifecycle' = Append(lifecycle, Life("sceDisplayWaitVblankStart", 0, dispBuf))
    /\ UNCHANGED << via, allocator, vramTotal, gfx, frame, nframes, held, calls, hw, regs >>

\* init, lines 75-79: the vertical blank arrives, the display is enabled and
\* the PspGfx is returned to the caller.
InitVblankReturn ==
    /\ pc = "init_vblank"
    /\ pc' = "caller"
    /\ log' = Append(log, Call("sceGuDisplay", [state |-> TRUE], "init"))
    /\ lifecycle' = Append(lifecycle, Life("sceGuDisplay", 0, dispBuf))
    /\ displayOn' = TRUE
    /\ gfx' = [fbp0 |-> RegionBase(1), fbp1 |-> RegionBase(2), zbp |-> RegionBase(3)]
    /\ UNCHANGED << via, allocator, vramTotal, frame, nframes, held, calls,
                    drawBuf, dispBuf, listOpen, gpuBusy, regs >>

\* ----------------------------------------------------- PspGfx::start_frame
\* start_frame takes &'a mut self and the Frame<'a> keeps that borrow: the
\* call type-checks only when no Frame borrowed from the context is alive.
\* (bug) start_frame takes &self: it can be called while a Frame is alive
MutBorrowAvailable_shared == TRUE

MutBorrowAvailable == frame = NoFrame

\* (bug) start_frame waits for the previous list itself
StartCommands_sync ==
    << Call("sceGuStart", [ctx |-> "Direct", list |-> BUFFER], "start_frame"),
       Call("sceGuSync", [mode |-> "Finish", behavior |-> "Wait"], "start_frame") >>

\* the driver calls of start_frame, lines 84-87
StartCommands ==
    << Call("sceGuStart", [ctx |-> "Direct", list |-> BUFFER], "start_frame") >>

\* (bug) start_frame puts the texture function back to the default
FrameStartTexFunc_default(t) == NoTexFunc

\* start_frame, lines 83-88, issues sceGuStart and no sceGuTexFunc: the
\* texture function in effect stays what it was.
FrameStartTexFunc(t) == t


\* start_frame, lines 83-88, issues sceGuStart and no sceGuShadeModel: the
\* shading model in effect stays what it was.
FrameStartShadeModel(m) == m

start_frame ==
    /\ pc = "caller"
    /\ MutBorrowAvailable
    /\ nframes < MaxFrames
    /\ nframes' = nframes + 1
    /\ frame' = [id |-> nframes + 1, armed |-> TRUE]
    /\ calls' = << >>
    /\ log' = StartCommands
    /\ lifecycle' = Append(lifecycle, Life("sceGuStart", nframes + 1, dispBuf))
    /\ listOpen' = TRUE
    /\ via' = "none"
    /\ texFunc' = FrameStartTexFunc(texFunc)
    /\ shadeModel' = FrameStartShadeModel(shadeModel)
    /\ UNCHANGED << pc, allocator, vramTotal, gfx, held,
                    drawBuf, dispBuf, displayOn, gpuBusy >>

\* ------------------------------------------------------------ Frame close
\* (bug) the buffers are swapped before the vertical blank is awaited
CloseSequence_tearing ==
    << Call("sceGuFinish", NoArgs, "finish_non_consuming"),
       Call("sceGuSync", [mode |-> "Finish", behavior |-> "Wait"], "finish_non_consuming"),
       Call("sceGuSwapBuffers", NoArgs, "finish_non_consuming"),
       Call("sceDisplayWaitVblankStart", NoArgs, "finish_non_consuming") >>

\* the four driver calls of finish_non_consuming, lines 100-103
CloseSequence ==
    << Call("sceGuFinish", NoArgs, "finish_non_consuming"),
       Call("sceGuSync", [mode |-> "Finish", behavior |-> "Wait"], "finish_non_consuming"),
       Call("sceDisplayWaitVblankStart", NoArgs, "finish_non_consuming"),
       Call("sceGuSwapBuffers", NoArgs, "finish_non_consuming") >>

\* (bug) the swap leaves the roles as they are
SwapBuffers_none(draw, disp) == [draw |-> draw, disp |-> disp]

\* sceGuSwapBuffers, line 103: the draw and display regions exchange roles
SwapBuffers(draw, disp) == [draw |-> disp, disp |-> draw]

\* finish_non_consuming, lines 100-101: sceGuFinish, then the thread enters
\* the blocking sceGuSync.  Entering a close ends the borrow of the Frame,
\* so every TransientBuffer whose lifetime is this Frame is gone.
BeginClose(who) ==
    /\ pc' = "close_sync"
    /\ via' = who
    /\ log' = log \o SubSeq(CloseSequence, 1, 2)
    /\ lifecycle' = lifecycle \o << Life(CloseSequence[1].call, frame.id, dispBuf),
                                    Life(CloseSequence[2].call, frame.id, dispBuf) >>
    /\ held' = {b \in held : b.lifetime # frame.id}
    /\ listOpen' = FALSE
    /\ gpuBusy' = TRUE

\* Frame::finish(self), line 110-111
finish ==
    /\ pc = "caller"
    /\ frame # NoFrame
    /\ BeginClose("finish")
    /\ UNCHANGED << allocator, vramTotal, gfx, frame, nframes, calls,
                    drawBuf, dispBuf, displayOn, regs >>

\* Drop for Frame, lines 220-224: the handle goes out of scope (scope end or
\* early return) or the caller panics and unwinds through it.
drop ==
    /\ pc = "caller"
    /\ frame # NoFrame
    /\ frame.armed
    /\ \E why \in {"drop", "unwind"} : BeginClose(why)
    /\ UNCHANGED << allocator, vramTotal, gfx, frame, nframes, calls,
                    drawBuf, dispBuf, displayOn, regs >>

\* finish_non_consuming, lines 101-102: sceGuSync returns, the thread calls
\* sceDisplayWaitVblankStart and waits.
\* (bug) the close returns once the sync is over, without the wait for the
\* vertical blank and without the swap
CloseSyncReturn_early ==
    /\ pc = "close_sync"
    /\ SyncReturns
    /\ pc' = IF via = "unwind" THEN "unwound" ELSE "caller"
    /\ frame' = NoFrame
    /\ UNCHANGED << via, allocator, vramTotal, gfx, nframes, held, calls, log, lifecycle,
                    hw, regs >>
CloseSyncReturn ==
    /\ pc = "close_sync"
    /\ SyncReturns
    /\ pc' = "close_vblank"
    /\ log' = Append(log, CloseSequence[3])
    /\ lifecycle' = Append(lifecycle, Life(CloseSequence[3].call, frame.id, dispBuf))
    /\ UNCHANGED << via, allocator, vramTotal, gfx, frame, nframes, held, calls, hw, regs >>

\* (bug) the handle is not wrapped: it is dropped at the end of finish
ManuallyDrop_new_dropped(f) == f

\* ManuallyDrop::new(self), line 113: the handle is wrapped, its destructor
\* will not run.

ManuallyDrop_new(f) == [f EXCEPT !.armed = FALSE]

\* finish_non_consuming, lines 102-103, and the return to its caller: the
\* vertical blank arrives, sceGuSwapBuffers exchanges the draw and display
\* regions.  Back in finish (line 113) the handle is wrapped in ManuallyDrop
\* and its scope ends; back in drop the handle is gone.  A handle that is
\* still armed at the end of finish is dropped there: Drop runs.
\* (bug) the close exchanges the context's two colour region handles
GfxAfterClose_swapped(g) == [g EXCEPT !.fbp0 = g.fbp1, !.fbp1 = g.fbp0]
\* finish_non_consuming, lines 98-105, takes &self and writes nothing through
\* the Frame's _gfx reference: the PspGfx is what it was.
GfxAfterClose(g) == g

CloseVblankReturn ==
    /\ pc = "close_vblank"
    /\ gfx' = GfxAfterClose(gfx)
    /\ LET swapped == SwapBuffers(drawBuf, dispBuf)
           life == Append(lifecycle, Life(CloseSequence[4].call, frame.id, swapped.disp))
           after == IF via = "finish" THEN ManuallyDrop_new(frame)
                    ELSE [frame EXCEPT !.armed = FALSE]
       IN /\ drawBuf' = swapped.draw
          /\ dispBuf' = swapped.disp
          /\ IF after.armed
             THEN /\ pc' = "close_sync"
                  /\ via' = "drop"
                  /\ frame' = after
                  /\ log' = log \o << CloseSequence[4] >> \o SubSeq(CloseSequence, 1, 2)
                  /\ lifecycle' = life \o << Life(CloseSequence[1].call, frame.id, swapped.disp),
                                              Life(CloseSequence[2].call, frame.id, swapped.disp) >>
                  /\ gpuBusy' = TRUE
             ELSE /\ pc' = IF via = "unwind" THEN "unwound" ELSE "caller"
                  /\ frame' = NoFrame
                  /\ log' = Append(log, CloseSequence[4])
                  /\ lifecycle' = life
                  /\ UNCHANGED << via, gpuBusy >>
    /\ UNCHANGED << allocator, vramTotal, nframes, held, calls, displayOn, listOpen,
                    regs >>

\* ------------------------------------------------------- typed buffers
\* Color32 values the caller passes: opaque black.
Colors == { [r |-> 0, g |-> 0, b |-> 0, a |-> 255] }

\* Color32::as_abgr: the packed hardware word as its four bytes, most
\* significant first (alpha, blue, green, red).
as_abgr(c) == << c.a, c.b, c.g, c.r >>

\* clear depths: the far plane
Depths == {65535}

\* scissor rectangles: one that reaches beyond the screen
Rects == { [x |-> -8, y |-> 16, w |-> 1024, h |-> 600] }

TextureEffects == {"Modulate", "Replace"}

TextureColorComponents == {"Rgba"}

ShadingModels == {"Flat", "Smooth"}

GuPrimitives == {"Triangles"}

\* Vertex::vtype / IndexItem::vtype: the format bitmask of an element type.
\* "Vertex": 32-bit float texture coordinates, 8888 colour, 32-bit float
\* position; "u16" and "u8": 16-bit and 8-bit indices.
vtype(elem) ==
    CASE elem = "Vertex" -> 3 + 28 + 384
      [] elem = "u16" -> 4096
      [] elem = "u8" -> 2048

\* size_of::<T>() of an element type
ElemSize(elem) ==
    CASE elem = "Vertex" -> 24
      [] elem = "u16" -> 2
      [] elem = "u8" -> 1

\* A Buffer: len() and as_ptr(), its element type, the frame whose scratch
\* memory backs it (0: caller-owned memory) and the lifetime its type carries
\* (0: not tied to a Frame).
Buf(kind, elem, len, addr, of, lifetime) ==
    [kind |-> kind, elem |-> elem, len |-> len, addr |-> addr, frame |-> of,
     lifetime |-> lifetime]

\* Caller-owned vertex buffers: empty and three vertices.
VertexBufs == { Buf("persistent", "Vertex", 0, 8192, 0, 0),
                Buf("persistent", "Vertex", 3, 8448, 0, 0) }

\* Caller-owned index buffers: empty, and longer than either vertex buffer.
IndexBufs == { Buf("persistent", "u8", 0, 12288, 0, 0),
               Buf("persistent", "u16", 6, 12800, 0, 0) }

\* Slices the caller stages with get_memory: element type and length.
DataSlices == { [elem |-> "Vertex", len |-> 3],
                [elem |-> "u16", len |-> 6] }

\* ------------------------------------------------------ Frame operations
\* A Frame operation is callable when the caller holds an open Frame.
\* (bug) the Frame's operations can be called while its close is running
FrameOpen_closing == frame # NoFrame
FrameOpen == pc = "caller" /\ frame # NoFrame

\* The operation `op` with arguments `args` issues the driver calls `cmds`.
Enqueue(op, args, cmds) ==
    /\ FrameOpen
    /\ Len(calls) < MaxOps
    /\ calls' = Append(calls, [op |-> op, args |-> args])
    /\ log' = log \o cmds
    /\ UNCHANGED << pc, via, allocator, vramTotal, gfx, frame, nframes, lifecycle, hw >>

clear_color ==
    \E color \in Colors :
        /\ Enqueue("clear_color", [color |-> color],
               << Call("sceGuClearColor", [color |-> as_abgr(color)], "clear_color"),
                  Call("sceGuClear", [flags |-> COLOR_BUFFER_BIT], "clear_color") >>)
        /\ UNCHANGED << held, regs >>

clear_depth ==
    \E depth \in Depths :
        /\ Enqueue("clear_depth", [depth |-> depth],
               << Call("sceGuClearDepth", [depth |-> depth], "clear_depth"),
                  Call("sceGuClear", [flags |-> DEPTH_BUFFER_BIT], "clear_depth") >>)
        /\ UNCHANGED << held, regs >>

\* (bug) the depth bit is left out of the combined clear
ClearBothFlags_color == COLOR_BUFFER_BIT

\* COLOR_BUFFER_BIT | DEPTH_BUFFER_BIT, line 138
ClearBothFlags == BitOr(COLOR_BUFFER_BIT, DEPTH_BUFFER_BIT)

clear_color_depth ==
    \E color \in Colors, depth \in Depths :
        /\ Enqueue("clear_color_depth", [color |-> color, depth |-> depth],
               << Call("sceGuClearColor", [color |-> as_abgr(color)], "clear_color_depth"),
                  Call("sceGuClearDepth", [depth |-> depth], "clear_color_depth"),
                  Call("sceGuClear", [flags |-> ClearBothFlags], "clear_color_depth") >>)
        /\ UNCHANGED << held, regs >>

set_texture_function ==
    \E tfx \in TextureEffects, tcc \in TextureColorComponents :
        /\ Enqueue("set_texture_function", [tfx |-> tfx, tcc |-> tcc],
               << Call("sceGuTexFunc", [tfx |-> tfx, tcc |-> tcc], "set_texture_function") >>)
        /\ texFunc' = [tfx |-> tfx, tcc |-> tcc]
        /\ UNCHANGED << held, shadeModel >>

set_shading_model ==
    \E mode \in ShadingModels :
        /\ Enqueue("set_shading_model", [mode |-> mode],
               << Call("sceGuShadeModel", [mode |-> mode], "set_shading_model") >>)
        /\ shadeModel' = mode
        /\ UNCHANGED << held, texFunc >>

set_color ==
    \E color \in Colors :
        /\ Enqueue("set_color", [color |-> color],
               << Call("sceGuColor", [color |-> as_abgr(color)], "set_color") >>)
        /\ UNCHANGED << held, regs >>

set_scissor ==
    \E scissor \in Rects :
        /\ Enqueue("set_scissor", [scissor |-> scissor],
               << Call("sceGuScissor", [x |-> scissor.x, y |-> scissor.y, w |-> scissor.w,
                                        h |-> scissor.h], "set_scissor") >>)
        /\ UNCHANGED << held, regs >>

\* TransientBuffer::get_memory_static: sceGuGetMemory carves the bytes out of
\* the command-list arena at the list's current position and the data is
\* copied there.
get_memory_static(data, of, lifetime) ==
    Buf("transient", data.elem, data.len, BUFFER + Len(log), of, lifetime)

\* (bug) the returned buffer's lifetime is not tied to the Frame
FrameLifetime_unbound(f) == 0

\* The lifetime 'frame of the TransientBuffer that get_memory returns: the
\* borrow &'frame self of the Frame it was called on.
FrameLifetime(f) == f.id

get_memory ==
    \E data \in DataSlices :
        /\ Enqueue("get_memory", [data |-> data],
               << Call("sceGuGetMemory", [size |-> data.len * ElemSize(data.elem)],
                       "get_memory_static") >>)
        /\ held' = held \cup {get_memory_static(data, frame.id, FrameLifetime(frame))}
        /\ UNCHANGED regs

\* Buffers of element class `vertex` (TRUE) or index (FALSE) the caller can
\* pass to a draw call: its own memory and the TransientBuffers it can name.
Usable(vertex) ==
    IF vertex
    THEN VertexBufs \cup {b \in held : b.elem = "Vertex"}
    ELSE IndexBufs \cup {b \in held : b.elem # "Vertex"}

\* (bug) the last vertex is left out
ArrayCount_short(vertex_buf) == IF vertex_buf.len = 0 THEN 0 ELSE vertex_buf.len - 1

\* element count of draw_array, line 191
ArrayCount(vertex_buf) == vertex_buf.len

\* format bitmask of draw_array, line 190: V::Item::vtype()
ArrayVtype(vertex_buf) == vtype(vertex_buf.elem)

draw_array ==
    \E primitive \in GuPrimitives, vertex_buf \in Usable(TRUE) :
        /\ Enqueue("draw_array", [primitive |-> primitive, vertex_buf |-> vertex_buf],
               << Call("sceGuDrawArray",
                       [prim |-> primitive,
                        vtype |-> ArrayVtype(vertex_buf),
                        count |-> ArrayCount(vertex_buf),
                        indices |-> NULL,
                        vertices |-> vertex_buf.addr], "draw_array") >>)
        /\ UNCHANGED << held, regs >>

\* (bug) the count is taken from the vertex buffer
IndexedCount_vertices(vertex_buf, index_buf) == vertex_buf.len

\* element count of draw_array_indexed, line 212
IndexedCount(vertex_buf, index_buf) == index_buf.len

\* (bug) the index element's tag is left out of the bitmask
IndexedVtype_vertex_only(vertex_buf, index_buf) == vtype(vertex_buf.elem)
\* format bitmask of draw_array_indexed, line 211:
\* V::Item::vtype() | I::Item::vtype()
IndexedVtype(vertex_buf, index_buf) ==
    BitOr(vtype(vertex_buf.elem), vtype(index_buf.elem))

draw_array_indexed ==
    \E primitive \in GuPrimitives, vertex_buf \in Usable(TRUE), index_buf \in Usable(FALSE) :
        /\ Enqueue("draw_array_indexed",
               [primitive |-> primitive, vertex_buf |-> vertex_buf, index_buf |-> index_buf],
               << Call("sceGuDrawArray",
                       [prim |-> primitive,
                        vtype |-> IndexedVtype(vertex_buf, index_buf),
                        count |-> IndexedCount(vertex_buf, index_buf),
                        indices |-> index_buf.addr,
                        vertices |-> vertex_buf.addr], "draw_array_indexed") >>)
        /\ UNCHANGED << held, regs >>

Next ==
    \/ InitCall
    \/ GpuFinish
    \/ InitSyncReturn
    \/ InitVblankReturn
    \/ start_frame
    \/ clear_color
    \/ clear_depth
    \/ clear_color_depth
    \/ set_texture_function
    \/ set_shading_model
    \/ set_color
    \/ set_scissor
    \/ get_memory
    \/ draw_array
    \/ draw_array_indexed
    \/ finish
    \/ drop
    \/ CloseSyncReturn
    \/ CloseVblankReturn

Spec == Init /\ [][Next]_vars

\* The hardware finishes every list it was given and the vertical blank keeps
\* arriving, so a thread blocked in one of the waits of lines 74-75 and
\* 101-102 is resumed; the caller's own calls are under no obligation.
FairSpec ==
    /\ Spec
    /\ WF_vars(GpuFinish)
    /\ WF_vars(InitSyncReturn)
    /\ WF_vars(InitVblankReturn)
    /\ WF_vars(CloseSyncReturn)
    /\ WF_vars(CloseVblankReturn)

\* ================================================================ claims
\* positions of the lifecycle calls named `name` that belong to frame k
LifeAt(name, k) ==
    {i \in DOMAIN lifecycle : lifecycle[i].call = name /\ lifecycle[i].frame = k}

\* the four driver calls of a close, by name
CloseNames ==
    << "sceGuFinish", "sceGuSync", "sceDisplayWaitVblankStart", "sceGuSwapBuffers" >>

\* frame k's handle no longer exists and the thread is out of its close
Gone(k) == frame.id # k

\* C1: every Frame's close sequence runs exactly once. No step of the close
\* is ever issued twice for one Frame; a Frame whose handle has ceased to
\* exist (by finish, by drop or by unwinding) has had each of the four steps
\* exactly once; a Frame the caller still holds has had none.
C1_CloseExactlyOnce ==
    \A k \in 1..nframes :
        \A n \in 1..4 :
            LET runs == Cardinality(LifeAt(CloseNames[n], k))
            IN /\ runs <= 1
               /\ Gone(k) => runs = 1
               /\ (frame.id = k /\ pc = "caller") => runs = 0

\* C1 witness: a Frame was ended by an explicit finish() and the caller runs
\* on without a Frame, a second Frame having been started and ended too.
C1_Witness ==
    /\ pc = "caller"
    /\ frame = NoFrame
    /\ via = "finish"
    /\ nframes = 2

\* positions of the log where finish_non_consuming issued sceGuFinish
CloseStarts ==
    {i \in DOMAIN log : log[i].call = "sceGuFinish" /\ log[i].by = "finish_non_consuming"}

\* C2: the four steps of a close are issued in the order sceGuFinish,
\* sceGuSync(Finish, Wait), sceDisplayWaitVblankStart, sceGuSwapBuffers with
\* no other driver call between them: whatever follows a close's sceGuFinish
\* in the log is the next step of the four, each of the later three steps
\* stands at its place after a sceGuFinish, and once the thread is out of the
\* close all four are there.
C2_CloseOrder ==
    /\ \A i \in CloseStarts :
           /\ \A n \in 2..4 :
                  (i + n - 1 <= Len(log)) => log[i + n - 1].call = CloseNames[n]
           /\ (i + 1 <= Len(log)) =>
                  log[i + 1].args = [mode |-> "Finish", behavior |-> "Wait"]
           /\ pc \in {"caller", "unwound"} => i + 3 <= Len(log)
    /\ \A j \in DOMAIN log :
           \A n \in 2..4 :
               (log[j].call = CloseNames[n] /\ log[j].by # "init") =>
                   (j - n + 1) \in CloseStarts

\* C2 witness: a Frame that recorded clears and draws has been closed.
C2_Witness ==
    /\ pc = "caller"
    /\ frame = NoFrame
    /\ Len(calls) = 2
    /\ Len(log) >= 7
    /\ log[Len(log)].call = "sceGuSwapBuffers"

\* frames that were started and whose close has not issued sceGuSwapBuffers
OpenFrames == {k \in 1..nframes : LifeAt("sceGuSwapBuffers", k) = {}}

\* C3: at most one Frame is open, and every sceGuStart of start_frame comes
\* directly after the complete close of the previous Frame (after the end of
\* init for the first Frame).
C3_OneFrame ==
    /\ OpenFrames \subseteq {nframes}
    /\ frame # NoFrame => frame.id = nframes
    /\ \A i \in DOMAIN lifecycle :
           (lifecycle[i].call = "sceGuStart" /\ lifecycle[i].frame >= 1) =>
               /\ i > 4
               /\ IF lifecycle[i].frame = 1
                  THEN lifecycle[i - 1] = [call |-> "sceGuDisplay", frame |-> 0,
                                           disp |-> lifecycle[i - 1].disp]
                  ELSE \A n \in 1..4 :
                           /\ lifecycle[i - 5 + n].call = CloseNames[n]
                           /\ lifecycle[i - 5 + n].frame = lifecycle[i].frame - 1

\* C3 witness: a third Frame is open after two Frames ended.
C3_Witness ==
    /\ nframes = 3
    /\ frame # NoFrame
    /\ pc = "caller"

\* the buffers a recorded Frame operation was given
BuffersOf(c) ==
    IF c.op = "draw_array" THEN {c.args.vertex_buf}
    ELSE IF c.op = "draw_array_indexed" THEN {c.args.vertex_buf, c.args.index_buf}
    ELSE {}

\* C4: no TransientBuffer outlives the Frame it came from. Every
\* TransientBuffer the caller can still name belongs to the Frame that is
\* open, and every buffer a draw call of the current Frame was given is
\* caller-owned memory or scratch memory of this same Frame.
C4_TransientScoped ==
    /\ \A b \in held : b.frame = frame.id /\ frame # NoFrame
    /\ \A i \in DOMAIN calls :
           \A b \in BuffersOf(calls[i]) :
               b.kind = "transient" => b.frame = nframes

\* C4 witness: the second Frame draws from scratch memory it staged itself,
\* at the arena address the first Frame's scratch memory had.
C4_Witness ==
    /\ nframes = 2
    /\ Len(calls) = 2
    /\ calls[1].op = "get_memory"
    /\ calls[2].op = "draw_array"
    /\ calls[2].args.vertex_buf.kind = "transient"
    /\ calls[2].args.vertex_buf.addr = BUFFER + 1
\* the draw operations recorded on the current Frame, in order
DrawCalls ==
    SelectSeq(calls, LAMBDA c : c.op \in {"draw_array", "draw_array_indexed"})

\* the sceGuDrawArray calls the driver received for the current Frame
DrawEntries == SelectSeq(log, LAMBDA e : e.call = "sceGuDrawArray")

\* C5: draw_array_indexed issues exactly one sceGuDrawArray, and its element
\* count is index_buf.len() whatever vertex_buf.len() is (0 for an empty
\* index buffer, more than the vertices when the index buffer is longer).
C5_IndexedCount ==
    LET asked == DrawCalls
        issued == DrawEntries
    IN /\ Len(issued) = Len(asked)
       /\ \A j \in DOMAIN asked :
              asked[j].op = "draw_array_indexed" =>
                  /\ issued[j].by = "draw_array_indexed"
                  /\ issued[j].args.count = asked[j].args.index_buf.len
                  /\ issued[j].args.indices = asked[j].args.index_buf.addr
                  /\ issued[j].args.vertices = asked[j].args.vertex_buf.addr

\* C5 witness: one Frame drew with an empty index buffer and then with an
\* index buffer longer than the vertex buffer.
C5_Witness ==
    /\ Len(calls) = 2
    /\ calls[1].op = "draw_array_indexed"
    /\ calls[1].args.index_buf.len = 0
    /\ calls[1].args.vertex_buf.len > 0
    /\ calls[2].op = "draw_array_indexed"
    /\ calls[2].args.index_buf.len > calls[2].args.vertex_buf.len
    /\ Len(DrawEntries) = 2

\* C6: draw_array issues exactly one sceGuDrawArray with element count
\* vertex_buf.len(), a null index pointer and the vertex buffer's address,
\* for every length including 0.
C6_ArrayCount ==
    LET issued == DrawEntries
        asked == DrawCalls
    IN /\ Len(asked) = Len(issued)
       /\ \A j \in DOMAIN asked :
              asked[j].op = "draw_array" =>
                  /\ issued[j].by = "draw_array"
                  /\ issued[j].args.count = asked[j].args.vertex_buf.len
                  /\ issued[j].args.indices = 0
                  /\ issued[j].args.vertices = asked[j].args.vertex_buf.addr
                  /\ issued[j].args.vertices # 0

\* C6 witness: one Frame drew an empty vertex buffer and a buffer of three.
C6_Witness ==
    /\ Len(calls) = 2
    /\ calls[1].op = "draw_array"
    /\ calls[1].args.vertex_buf.len = 0
    /\ calls[2].op = "draw_array"
    /\ calls[2].args.vertex_buf.len = 3
    /\ Len(DrawEntries) = 2

\* every sceGuSwapBuffers since boot, with the display pointer after it
Swaps == SelectSeq(lifecycle, LAMBDA l : l.call = "sceGuSwapBuffers")

\* C7: init registers fbp0 as draw buffer and fbp1 as display buffer and
\* swaps nothing; every Frame close swaps exactly once; so the displayed
\* region after frame k differs from the one after frame k+1 and equals the
\* one after frame k+2.
C7_Alternation ==
    LET shown == Swaps
    IN /\ \A k \in DOMAIN shown : shown[k].frame = k
       /\ (gfx # NoGfx /\ shown = << >>) => (drawBuf = gfx.fbp0 /\ dispBuf = gfx.fbp1)
       /\ \A k \in DOMAIN shown :
              /\ (k + 1 <= Len(shown)) => shown[k].disp # shown[k + 1].disp
              /\ (k + 2 <= Len(shown)) => shown[k].disp = shown[k + 2].disp
              /\ shown[k].disp \in {gfx.fbp0, gfx.fbp1}
       /\ shown # << >> => dispBuf = shown[Len(shown)].disp

\* C7 witness: three Frames have been closed.
C7_Witness ==
    /\ Len(Swaps) = 3
    /\ dispBuf = gfx.fbp0
    /\ drawBuf = gfx.fbp1

\* the names of the driver calls in the log, in order
LogNames == [i \in DOMAIN log |-> log[i].call]

\* the first Frame after init took clear_color_depth(black, 0xFFFF) and
\* draw_array(Triangles, three vertices) and was closed with finish()
C8_Scenario ==
    /\ nframes = 1
    /\ frame = NoFrame
    /\ pc = "caller"
    /\ via = "finish"
    /\ Len(calls) = 2
    /\ calls[1] = [op |-> "clear_color_depth",
                   args |-> [color |-> [r |-> 0, g |-> 0, b |-> 0, a |-> 255],
                             depth |-> 65535]]
    /\ calls[2].op = "draw_array"
    /\ calls[2].args.primitive = "Triangles"
    /\ calls[2].args.vertex_buf.len = 3

\* C8: after that scenario the backend has recorded for the frame exactly
\* sceGuStart, the clear colour, the clear depth 0xFFFF, one sceGuClear with
\* the colour and the depth bit, one sceGuDrawArray of count 3, then
\* sceGuFinish, sceGuSync, sceDisplayWaitVblankStart, sceGuSwapBuffers.
C8_EndToEnd ==
    C8_Scenario =>
        /\ LogNames = << "sceGuStart", "sceGuClearColor", "sceGuClearDepth", "sceGuClear",
                         "sceGuDrawArray", "sceGuFinish", "sceGuSync",
                         "sceDisplayWaitVblankStart", "sceGuSwapBuffers" >>
        /\ log[2].args.color = << 255, 0, 0, 0 >>
        /\ log[3].args.depth = 65535
        /\ log[4].args.flags = 5
        /\ log[5].args.count = 3
        /\ log[5].args.prim = "Triangles"
        /\ lifecycle[Len(lifecycle) - 5].call = "sceGuDisplay"

\* C8 witness: the scenario has run.
C8_Witness == C8_Scenario /\ Len(log) = 9

\* a driver call that suspends the calling thread
Blocking(e) ==
    \/ e.call = "sceDisplayWaitVblankStart"
    \/ (e.call = "sceGuSync" /\ e.args.behavior = "Wait")

\* C9 as stated: every blocking wait is issued by a Frame close; init,
\* start_frame and the Frame operations issue none.
C9_OnlyCloseBlocks ==
    \A i \in DOMAIN log : Blocking(log[i]) => log[i].by = "finish_non_consuming"

\* C9 amended: blocking waits are issued only by a Frame close (its steps 2
\* and 3) and by init, which issues one sceGuSync(Finish, Wait) and one
\* sceDisplayWaitVblankStart after its setup list and before sceGuDisplay;
\* start_frame and every clear, draw, state-set and get_memory operation
\* issue none, and the thread is suspended only inside init or a close.
C9_CloseAndInitBlock ==
    /\ \A i \in DOMAIN log :
           Blocking(log[i]) => log[i].by \in {"finish_non_consuming", "init"}
    /\ \A i \in DOMAIN log :
           (Blocking(log[i]) /\ log[i].by = "init") =>
               /\ i \in {13, 14}
               /\ (i < Len(log)) =>
                      log[i + 1].call \in {"sceDisplayWaitVblankStart", "sceGuDisplay"}
    /\ Cardinality({i \in DOMAIN log : Blocking(log[i])}) <= 2
    /\ pc \in {"init_sync", "init_vblank", "close_sync", "close_vblank"} =>
           Blocking(log[Len(log)])
    /\ pc \in {"caller", "unwound"} => ~Blocking(log[Len(log)])

\* C9 witness: a Frame took two operations and its close is waiting for the
\* vertical blank, the second of its two blocking waits.
C9_Witness ==
    /\ pc = "close_vblank"
    /\ Len(calls) = 2
    /\ Cardinality({i \in DOMAIN log : Blocking(log[i])}) = 2

\* C10: when the allocator is already taken or video memory cannot hold the
\* two colour regions and the depth region (2 * 557056 + 278528 bytes), init
\* never returns a PspGfx, no Frame is ever started and no driver call is
\* ever issued.
C10_InitFailsFirst ==
    (allocator = "in_use" \/ vramTotal < 1392640) =>
        /\ pc \in {"boot", "panicked"}
        /\ gfx = NoGfx
        /\ frame = NoFrame
        /\ nframes = 0
        /\ log = << >>
        /\ lifecycle = << >>
        /\ ~displayOn
        /\ drawBuf = -1
        /\ dispBuf = -1

\* C10 witness: init has panicked on the third request, the depth region.
C10_Witness ==
    /\ pc = "panicked"
    /\ allocator = "free"
    /\ vramTotal = 1114112

\* the latest operation named `op` recorded on the current Frame (0: none)
LastCall(op) ==
    LET at == {i \in DOMAIN calls : calls[i].op = op}
    IN IF at = {} THEN 0 ELSE CHOOSE i \in at : \A j \in at : j <= i

\* the texture function changes in this step
TexFuncChanges == texFunc' # texFunc

\* this step is a set_texture_function call that writes its operands
TexFuncIsSet ==
    /\ Len(calls') = Len(calls) + 1
    /\ calls'[Len(calls')].op = "set_texture_function"
    /\ texFunc' = calls'[Len(calls')].args

\* C11: a texture function set with set_texture_function stays in effect,
\* through the close of its Frame and the start of later Frames, until
\* set_texture_function is called again: the value in effect is the one of
\* the latest call on this Frame, and no step other than a
\* set_texture_function call changes it.
C11_TexFuncPersists ==
    /\ [](LastCall("set_texture_function") # 0 =>
              texFunc = calls[LastCall("set_texture_function")].args)
    /\ [][TexFuncChanges => TexFuncIsSet]_vars

\* C11 witness: a later Frame is open, has not called set_texture_function,
\* and the texture function an earlier Frame set is in effect.
C11_Witness ==
    /\ nframes = 3
    /\ FrameOpen
    /\ Len(calls) = 1
    /\ LastCall("set_texture_function") = 0
    /\ texFunc = [tfx |-> "Replace", tcc |-> "Rgba"]

\* C12 as stated: the shading model an earlier Frame set is not in effect in
\* a Frame that has not called set_shading_model itself.
C12_ShadeModelFrameLocal ==
    (frame # NoFrame /\ LastCall("set_shading_model") = 0) => shadeModel = "default"

\* the thread is inside finish_non_consuming
Closing == pc \in {"close_sync", "close_vblank"}

\* a step taken while the thread is inside the close: the hardware finishes
\* the list or the close moves on; the Frame's operations, the frame count
\* and the retained handles stay as they are
CloseStep ==
    /\ pc' \in {"close_sync", "close_vblank", "caller", "unwound"}
    /\ calls' = calls
    /\ nframes' = nframes
    /\ Len(lifecycle') \in {Len(lifecycle), Len(lifecycle) + 1, Len(lifecycle) + 3}
    /\ SubSeq(lifecycle', 1, Len(lifecycle)) = lifecycle
    /\ \A i \in (Len(lifecycle) + 1)..Len(lifecycle') :
           /\ \E n \in DOMAIN CloseNames : lifecycle'[i].call = CloseNames[n]
           /\ lifecycle'[i].frame = frame.id

\* C13: a close, once begun, runs to completion provided the hardware
\* eventually signals: the thread inside a close eventually returns from it
\* with the Frame gone; a frame whose sceGuFinish was issued and whose
\* sceGuSwapBuffers was not is the frame being closed, and when the thread
\* is back every frame started so far has had its swap; no step taken
\* meanwhile is anything but a step of that close; and after a close that
\* was not an unwinding the inner render context is free again, so that
\* start_frame can be called.
C13_CloseCompletes ==
    /\ Closing ~> (pc \in {"caller", "unwound"} /\ frame = NoFrame)
    /\ [](\A k \in 1..nframes :
              (LifeAt("sceGuFinish", k) # {} /\ LifeAt("sceGuSwapBuffers", k) = {})
                  => (Closing /\ frame.id = k))
    /\ []((pc \in {"caller", "unwound"} /\ frame = NoFrame) =>
              \A k \in 1..nframes : LifeAt("sceGuSwapBuffers", k) # {})
    /\ [][Closing => CloseStep]_vars
    /\ []((pc = "caller" /\ gfx # NoGfx /\ frame = NoFrame /\ nframes < MaxFrames)
              => ENABLED start_frame)

\* C13 witness: the close of the second frame has issued sceGuFinish and the
\* thread waits in sceGuSync for the hardware, which is still busy.
C13_Witness ==
    /\ pc = "close_sync"
    /\ gpuBusy
    /\ nframes = 2
    /\ LifeAt("sceGuFinish", 2) # {}
    /\ LifeAt("sceGuSwapBuffers", 2) = {}

\* the driver calls each operation of Frame issues, lines 116-217
Issues(op) ==
    CASE op = "clear_color"          -> << "sceGuClearColor", "sceGuClear" >>
      [] op = "clear_depth"          -> << "sceGuClearDepth", "sceGuClear" >>
      [] op = "clear_color_depth"    -> << "sceGuClearColor", "sceGuClearDepth", "sceGuClear" >>
      [] op = "set_texture_function" -> << "sceGuTexFunc" >>
      [] op = "set_shading_model"    -> << "sceGuShadeModel" >>
      [] op = "set_color"            -> << "sceGuColor" >>
      [] op = "set_scissor"          -> << "sceGuScissor" >>
      [] op = "get_memory"           -> << "sceGuGetMemory" >>
      [] op = "draw_array"           -> << "sceGuDrawArray" >>
      [] op = "draw_array_indexed"   -> << "sceGuDrawArray" >>

\* the driver calls the operations `cs` issue, in the caller's order
RECURSIVE IssuedBy(_)
IssuedBy(cs) ==
    IF cs = << >> THEN << >>
    ELSE IssuedBy(SubSeq(cs, 1, Len(cs) - 1)) \o Issues(cs[Len(cs)].op)

\* C14: every enqueueing operation is issued while a command list is open,
\* after the frame's sceGuStart and before its sceGuFinish, and the hardware
\* receives the commands of a frame in the order the caller invoked the
\* operations: the frame's list is sceGuStart, then the driver calls of the
\* operations in call order (state setters with the operands of their own
\* call), then, once the close has begun, the close sequence and nothing of
\* any operation.
C14_EnqueueInsideList ==
    nframes >= 1 =>
        LET want == IssuedBy(calls)
            body == Len(want)
        IN /\ Len(log) >= 1 + body
           /\ log[1].call = "sceGuStart"
           /\ \A i \in 1..body : log[1 + i].call = want[i]
           /\ \A j \in DOMAIN calls :
                  calls[j].op \in {"set_texture_function", "set_shading_model"} =>
                      log[1 + Len(IssuedBy(SubSeq(calls, 1, j)))].args = calls[j].args
           /\ (Len(log) > 1 + body) => log[2 + body].call = "sceGuFinish"
           /\ \A i \in (2 + body)..Len(log) : log[i].by = "finish_non_consuming"
           /\ (pc = "caller" /\ frame # NoFrame) => (listOpen /\ Len(log) = 1 + body)

\* C14 witness: a frame whose caller set the shading model twice, to two
\* different models, and then began the close.
C14_Witness ==
    /\ pc = "close_sync"
    /\ Len(calls) = 2
    /\ calls[1].op = "set_shading_model"
    /\ calls[2].op = "set_shading_model"
    /\ calls[1].args.mode = "Smooth"
    /\ calls[2].args.mode = "Flat"

\* the driver calls of init, lines 54-76, in order
InitNames ==
    << "sceGuInit", "sceGumLoadIdentity", "sceGuStart", "sceGuDrawBuffer",
       "sceGuDispBuffer", "sceGuDepthBuffer", "sceGuOffset", "sceGuViewport",
       "sceGuDepthRange", "sceGuScissor", "sceGuEnable", "sceGuFinish", "sceGuSync",
       "sceDisplayWaitVblankStart", "sceGuDisplay" >>

\* C15: init is balanced with respect to the command list. Until the first
\* start_frame the driver has seen a prefix of: sceGuInit, one sceGuStart,
\* the pipeline configuration, sceGuFinish, sceGuSync, the vblank wait,
\* sceGuDisplay; never a swap. The display is enabled only as the last of
\* these, and when init has returned no command list is open, the hardware
\* is idle, the display is on and the draw and display roles are the ones
\* init gave, so the first start_frame opens its list with none open.
C15_InitBalanced ==
    nframes = 0 =>
        /\ Len(log) <= Len(InitNames)
        /\ \A i \in DOMAIN log : log[i].call = InitNames[i]
        /\ displayOn <=> Len(log) = Len(InitNames)
        /\ listOpen => Len(log) < 12
        /\ pc = "caller" =>
               /\ Len(log) = Len(InitNames)
               /\ ~listOpen
               /\ ~gpuBusy
               /\ displayOn
               /\ drawBuf = gfx.fbp0
               /\ dispBuf = gfx.fbp1
               /\ ENABLED start_frame

\* C15 witness: init has returned and no frame has been started yet.
C15_Witness ==
    /\ pc = "caller"
    /\ nframes = 0
    /\ gfx # NoGfx
    /\ Len(log) = 15
    /\ log[15].call = "sceGuDisplay"

\* C16: the context's three region handles are fixed at init: in every state
\* after init, whatever frames were started, operated on and closed, fbp0,
\* fbp1 and zbp are the three regions init allocated (offsets 0, 557056 and
\* 1114112), the allocator is still held and video memory is what it was,
\* while the hardware's draw and display roles are those two colour regions
\* in either order; and every sceGuStart, in init and in every start_frame,
\* binds the direct context to the list arena BUFFER.
C16_HandlesFixed ==
    /\ gfx # NoGfx =>
           /\ gfx = [fbp0 |-> 0, fbp1 |-> 557056, zbp |-> 1114112]
           /\ allocator = "ours"
           /\ vramTotal = 2097152
           /\ \/ drawBuf = gfx.fbp0 /\ dispBuf = gfx.fbp1
              \/ drawBuf = gfx.fbp1 /\ dispBuf = gfx.fbp0
    /\ \A i \in DOMAIN log :
           log[i].call = "sceGuStart" =>
               log[i].args = [ctx |-> "Direct", list |-> BUFFER]

\* C16 witness: a second frame is open after one swap: the hardware draws
\* into the region of fbp1 while the handles are what init made them.
C16_Witness ==
    /\ FrameOpen
    /\ nframes = 2
    /\ Len(calls) = 1
    /\ drawBuf = gfx.fbp1
    /\ dispBuf = gfx.fbp0
    /\ gfx.fbp0 = 0

\* the bits of a format bitmask that encode the index element (bits 11-12)
IndexBits(mask) == (mask \div 2048) * 2048

\* the bits of a format bitmask that encode the vertex layout (bits 0-10)
VertexBits(mask) == mask % 2048

\* C17: the format bitmask draw_array_indexed passes to sceGuDrawArray is the
\* bitwise OR of the vertex element's type tag and the index element's type
\* tag (the vertex layout bits are the vertex tag, the index bits are the
\* index tag), the one draw_array passes is the vertex element's tag alone
\* (no index bit set), and the index pointer is index_buf's address, which
\* is not null, for the indexed draw and null for draw_array.
C17_FormatMask ==
    LET asked == DrawCalls
        issued == DrawEntries
    IN /\ Len(issued) = Len(asked)
       /\ \A j \in DOMAIN asked :
              LET mask == issued[j].args.vtype
                  vtag == vtype(asked[j].args.vertex_buf.elem)
              IN IF asked[j].op = "draw_array_indexed"
                 THEN /\ VertexBits(mask) = vtag
                      /\ IndexBits(mask) = vtype(asked[j].args.index_buf.elem)
                      /\ IndexBits(mask) \in {2048, 4096}
                      /\ issued[j].args.indices = asked[j].args.index_buf.addr
                      /\ issued[j].args.indices # 0
                 ELSE /\ mask = vtag
                      /\ IndexBits(mask) = 0
                      /\ issued[j].args.indices = 0

\* C17 witness: one Frame drew the same vertices unindexed and then with a
\* 16-bit index buffer.
C17_Witness ==
    /\ Len(calls) = 2
    /\ calls[1].op = "draw_array"
    /\ calls[2].op = "draw_array_indexed"
    /\ calls[2].args.index_buf.elem = "u16"
    /\ calls[1].args.vertex_buf = calls[2].args.vertex_buf
    /\ Len(DrawEntries) = 2
    /\ DrawEntries[1].args.vtype = 415
    /\ DrawEntries[2].args.vtype = 4511
====
